---- MODULE Spec2Model ----
(***************************************************************************)
(* Password Manager (src/main.py, src/password.py).                        *)
(*                                                                         *)
(* The program is a Tkinter form with three entry fields and three         *)
(* buttons.  Each button runs one handler to completion:                   *)
(*   password_generator_for_entry  (Generate Password)                     *)
(*   save                          (Add)                                   *)
(*   find_password                 (Search)                                *)
(* The only persistent state is the file details_data.json.                *)
(*                                                                         *)
(* Strings are sequences of one-character strings, so that str.title(),    *)
(* len() and the "in" tests of the code are computed character by          *)
(* character.  The file is represented by what json.load makes of it.      *)
(***************************************************************************)
EXTENDS Integers, Sequences, FiniteSets, TLC

VARIABLES
    website_text_field,   \* tk.Entry, main.py:170
    email_text_field,     \* tk.Entry, main.py:175
    password_text_field,  \* tk.Entry, main.py:180
    clipboard,            \* the system clipboard written by pyperclip.copy
    file,                 \* details_data.json
    outcome,              \* what the last handler run ended in
    saved                 \* history: the successful saves not yet superseded

vars == <<website_text_field, email_text_field, password_text_field,
          clipboard, file, outcome, saved>>

---------------------------------------------------------------------------
(* Characters and Python's str methods                                     *)

ascii_lowercase ==
    <<"a","b","c","d","e","f","g","h","i","j","k","l","m",
      "n","o","p","q","r","s","t","u","v","w","x","y","z">>

ascii_uppercase ==
    <<"A","B","C","D","E","F","G","H","I","J","K","L","M",
      "N","O","P","Q","R","S","T","U","V","W","X","Y","Z">>

Range(s) == {s[i] : i \in 1..Len(s)}

islower(c) == c \in Range(ascii_lowercase)

isupper(c) == c \in Range(ascii_uppercase)

upper(c) ==
    IF islower(c)
    THEN ascii_uppercase[CHOOSE i \in 1..Len(ascii_lowercase) : ascii_lowercase[i] = c]
    ELSE c

lower(c) ==
    IF isupper(c)
    THEN ascii_lowercase[CHOOSE i \in 1..Len(ascii_uppercase) : ascii_uppercase[i] = c]
    ELSE c

\* str.title(): a cased character is upper-cased when the character before it
\* is not cased (or there is none) and lower-cased when it is; any uncased
\* character, not only whitespace, starts a new word.
RECURSIVE title_from(_, _, _)
title_from(s, i, previous_is_cased) ==
    IF i > Len(s) THEN <<>>
    ELSE LET c == s[i]
             cased == islower(c) \/ isupper(c)
             t == IF previous_is_cased THEN lower(c) ELSE upper(c)
         IN  <<t>> \o title_from(s, i + 1, cased)

title(s) == title_from(s, 1, FALSE)

\* c in s, for a one-character c
contains(s, c) == \E i \in 1..Len(s) : s[i] = c

---------------------------------------------------------------------------
(* PasswordGenerator, src/password.py                                      *)

letters == ascii_lowercase \o ascii_uppercase

numbers == <<"0","1","2","3","4","5","6","7","8","9">>

symbols == <<"!","#","$","%","&","(",")","*","+">>

\* Bounds on the outcomes of the random module that are enumerated.  A tape
\* is one sequence of raw draws: its k-th draw is seed + k * stride.
MaxSeed == 2

MaxStride == 1

Tapes == [seed : 0..MaxSeed, stride : 1..MaxStride]

raw(tape, k) == tape.seed + k * tape.stride

\* random.randint(a, b): every integer of the inclusive range
randint(a, b) == a..b

\* random.choice(seq) on the k-th draw of the tape
choice(seq, tape, k) == seq[(raw(tape, k) % Len(seq)) + 1]

swap(x, i, j) == [x EXCEPT ![i] = x[j], ![j] = x[i]]

\* random.shuffle(x): for i in reversed(range(1, len(x))): j = randbelow(i+1);
\* x[i], x[j] = x[j], x[i]   (indices here are 1-based: i+1, j+1)
RECURSIVE shuffle_from(_, _, _, _)
shuffle_from(x, i, tape, k) ==
    IF i < 1 THEN x
    ELSE LET j == raw(tape, k) % (i + 1)
         IN  shuffle_from(swap(x, i + 1, j + 1), i - 1, tape, k + 1)

shuffle(x, tape, k) == shuffle_from(x, Len(x) - 1, tape, k)

\* a variant whose symbols loop runs one time too few
password_list_short_symbols(nr_letter, nr_symbols, nr_numbers, tape) ==
    [k \in 1..(nr_letter + (nr_symbols - 1) + nr_numbers) |->
        IF k <= nr_letter THEN choice(letters, tape, k)
        ELSE IF k <= nr_letter + (nr_symbols - 1) THEN choice(symbols, tape, k)
        ELSE choice(numbers, tape, k)]

\* the three append loops, password.py:44-51
password_list(nr_letter, nr_symbols, nr_numbers, tape) ==
    [k \in 1..(nr_letter + nr_symbols + nr_numbers) |->
        IF k <= nr_letter THEN choice(letters, tape, k)
        ELSE IF k <= nr_letter + nr_symbols THEN choice(symbols, tape, k)
        ELSE choice(numbers, tape, k)]

\* One outcome of the random draws of generate(): the three counts and a tape.
Draws ==
    [nr_letter : randint(8, 10), nr_symbols : randint(2, 5),
     nr_numbers : randint(2, 5), tape : Tapes]

\* PasswordGenerator.generate under the draws d; "".join is the identity on
\* a sequence of one-character strings.
generate(d) ==
    LET l == password_list(d.nr_letter, d.nr_symbols, d.nr_numbers, d.tape)
    IN  shuffle(l, d.tape, Len(l) + 1)

---------------------------------------------------------------------------
(* details_data.json and the json module                                   *)

EmptyMap == [k \in {} |-> <<>>]

\* The file, by what open() and json.load() make of it:
\*   absent   open() raises FileNotFoundError
\*   garbage  text json.load() rejects (JSONDecodeError): empty, cut short, ...
\*   array    a JSON array of strings: json.load() returns a list
\*   map      a JSON object: json.load() returns a dict
\* data is the dict of a map, items the list of an array.
File(kind, data, items) == [kind |-> kind, data |-> data, items |-> items]

Absent == File("absent", EmptyMap, <<>>)

Garbage == File("garbage", EmptyMap, <<>>)

\* json.dump(data, data_file, indent=4) into a file opened with mode "w":
\* the whole text is replaced by the serialization of the dict.  A dict of
\* str keys to dicts of str values is read back by json.load as it was.
json_dump_cut_short(data) == Garbage

json_dump(data) == File("map", data, <<>>)

\* dict.update
update(data, new) ==
    [k \in DOMAIN data \cup DOMAIN new |->
        IF k \in DOMAIN new THEN new[k] ELSE data[k]]

\* main.py:75-78, a variant that forgets .title()
new_data_raw_key(website, email, password) ==
    [k \in {website} |-> [email |-> email, password |-> password]]

\* main.py:75-78, a variant that leaves the password out of the record
new_data_no_password(website, email, password) ==
    [k \in {title(website)} |-> [email |-> email]]

\* main.py:75-78
new_data(website, email, password) ==
    [k \in {title(website)} |-> [email |-> email, password |-> password]]

---------------------------------------------------------------------------
(* What the user can type, and the files the program can start with        *)

Websites ==
    { <<>>, <<"a","b">>, <<"A","B">>, <<"a",".","b">> }

Emails ==
    { <<>>, <<"a","b">>, <<"a","@","b">>, <<"a",".","b">>,
      <<"a","@","b",".","c">> }

Passwords ==
    { <<>>, <<"p","w","1">> }

\* The random outcome enumerated where the store is under study (the store
\* never looks into a password): the shortest password of the first tape.
StoreDraws ==
    { d \in Draws :
        /\ d.tape = [seed |-> 0, stride |-> 1]
        /\ d.nr_letter = 8 /\ d.nr_symbols = 2 /\ d.nr_numbers = 2 }

ValidStores ==
    { EmptyMap,
      (<<"A","b">> :> [email |-> <<"x","@","y",".","z">>, password |-> <<"o","l","d">>])
        @@ (<<"Z","z">> :> [email |-> <<"a","@","b",".","c">>, password |-> <<"p","w","1">>]) }

\* no file, or a file written by earlier runs of the program
OwnFiles == {Absent} \cup {File("map", m, <<>>) : m \in ValidStores}

\* also a file that is not JSON
CorruptFiles == OwnFiles \cup {Garbage}

\* also JSON that is not an object
ForeignFiles ==
    CorruptFiles \cup {File("array", EmptyMap, <<>>), File("array", EmptyMap, << <<"A","b">> >>)}

---------------------------------------------------------------------------
(* The handlers                                                            *)

Outcome(op, kind, website, email, password) ==
    [op |-> op, kind |-> kind, website |-> website, email |-> email,
     password |-> password]

NoOutcome == Outcome("none", "none", <<>>, <<>>, <<>>)

InitWith(files) ==
    /\ website_text_field = <<>>
    /\ email_text_field = <<>>
    /\ password_text_field = <<>>
    /\ clipboard = <<>>
    /\ file \in files
    /\ outcome = NoOutcome
    /\ saved = EmptyMap

Init == InitWith(CorruptFiles)

\* The user edits one entry field.  A dialog of the last handler is modal and
\* has been dismissed by then.
TypeWebsite ==
    \E w \in Websites :
        /\ website_text_field' = w
        /\ outcome' = NoOutcome
        /\ UNCHANGED <<email_text_field, password_text_field, clipboard, file, saved>>

TypeEmail ==
    \E e \in Emails :
        /\ email_text_field' = e
        /\ outcome' = NoOutcome
        /\ UNCHANGED <<website_text_field, password_text_field, clipboard, file, saved>>

TypePassword ==
    \E p \in Passwords :
        /\ password_text_field' = p
        /\ outcome' = NoOutcome
        /\ UNCHANGED <<website_text_field, email_text_field, clipboard, file, saved>>

\* main.py:33-46 under the random outcome d
password_generator_for_entry(d) ==
    LET password == generate(d)
    IN  /\ password_text_field' = password
        /\ clipboard' = password
        /\ outcome' = Outcome("generate", "Generated", <<>>, <<>>, password)
        /\ UNCHANGED <<website_text_field, email_text_field, file, saved>>

\* history: the save of (website, email, password) supersedes the recorded
\* saves to the same title-cased key
Supersede(website, email, password) ==
    LET keep == {w \in DOMAIN saved : title(w) # title(website)}
    IN  [w \in keep \cup {website} |->
            IF w = website THEN [email |-> email, password |-> password]
            ELSE saved[w]]

\* a variant that tests the email before the empty fields
validate_email_first(website, email, password) ==
    IF ~contains(email, "@") \/ ~contains(email, ".") THEN "InvalidEmail"
    ELSE IF Len(website) = 0 \/ Len(password) = 0 \/ Len(email) = 0 THEN "EmptyField"
    ELSE "ok"

\* main.py:80-86: the validation of save, in the order of the code
validate(website, email, password) ==
    IF Len(website) = 0 \/ Len(password) = 0 \/ Len(email) = 0 THEN "EmptyField"
    ELSE IF ~contains(email, "@") \/ ~contains(email, ".") THEN "InvalidEmail"
    ELSE "ok"

\* main.py:87-95: what save ends in once validation has passed.  On a list
\* data.update raises AttributeError, which no except clause names, before
\* the file is opened for writing.
save_kind(f, website, email, password) ==
    IF validate(website, email, password) # "ok"
    THEN validate(website, email, password)
    ELSE IF f.kind = "array" THEN "AttributeError"
    ELSE "Saved"

\* main.py:87-93: the dict save starts from
load_or_empty(f) ==
    IF f.kind \in {"absent", "garbage"} THEN EmptyMap ELSE f.data

\* a variant that writes the file whatever validation said
file_after_save_unvalidated(f, website, email, password) ==
    IF f.kind = "array" THEN f
    ELSE json_dump(update(load_or_empty(f), new_data(website, email, password)))

\* a variant that writes only the new entry
file_after_save_only_new(f, website, email, password) ==
    IF save_kind(f, website, email, password) # "Saved" THEN f
    ELSE json_dump(new_data(website, email, password))

\* main.py:80-99: details_data.json after save, f being the file before
file_after_save(f, website, email, password) ==
    IF save_kind(f, website, email, password) # "Saved" THEN f
    ELSE json_dump(update(load_or_empty(f), new_data(website, email, password)))

\* main.py:51-103
save ==
    LET website == website_text_field
        email == email_text_field
        password == password_text_field
        kind == save_kind(file, website, email, password)
    IN  /\ outcome' = Outcome("save", kind, website, email, password)
        /\ file' = file_after_save(file, website, email, password)
        /\ IF kind = "Saved"
           THEN /\ website_text_field' = <<>>
                /\ email_text_field' = <<>>
                /\ password_text_field' = <<>>
                /\ saved' = Supersede(website, email, password)
           ELSE UNCHANGED <<website_text_field, email_text_field,
                            password_text_field, saved>>
        /\ UNCHANGED clipboard

\* a variant whose except clause catches every exception of the load
find_outcome_catches_all(f, website) ==
    IF f.kind # "map"
    THEN Outcome("find", "StoreMissing", website, <<>>, <<>>)
    ELSE IF website \in DOMAIN f.data
    THEN Outcome("find", "Found", website,
                 f.data[website]["email"], f.data[website]["password"])
    ELSE Outcome("find", "EntryNotFound", website, <<>>, <<>>)

\* main.py:127-142: what find_password ends in, website being title-cased.
\* Only FileNotFoundError is caught; on a list, "website in data" compares
\* with the items and data[website] raises TypeError.
find_outcome(f, website) ==
    IF f.kind = "absent"
    THEN Outcome("find", "StoreMissing", website, <<>>, <<>>)
    ELSE IF f.kind = "garbage"
    THEN Outcome("find", "JSONDecodeError", website, <<>>, <<>>)
    ELSE IF f.kind = "array"
    THEN IF website \in Range(f.items)
         THEN Outcome("find", "TypeError", website, <<>>, <<>>)
         ELSE Outcome("find", "EntryNotFound", website, <<>>, <<>>)
    ELSE IF website \in DOMAIN f.data
    THEN Outcome("find", "Found", website,
                 f.data[website]["email"], f.data[website]["password"])
    ELSE Outcome("find", "EntryNotFound", website, <<>>, <<>>)

\* a variant that creates an empty store when there is none
find_password_creates_store ==
    /\ outcome' = find_outcome(file, title(website_text_field))
    /\ file' = IF file.kind = "absent" THEN json_dump(EmptyMap) ELSE file
    /\ UNCHANGED <<website_text_field, email_text_field, password_text_field,
                   clipboard, saved>>

\* main.py:107-142
find_password ==
    /\ outcome' = find_outcome(file, title(website_text_field))
    /\ UNCHANGED <<website_text_field, email_text_field, password_text_field,
                   clipboard, file, saved>>

Generate == \E d \in StoreDraws : password_generator_for_entry(d)

Next ==
    \/ TypeWebsite
    \/ TypeEmail
    \/ TypePassword
    \/ Generate
    \/ save
    \/ find_password

Spec == Init /\ [][Next]_vars

\* The program started with no file or with a file it wrote itself.
InitValid == InitWith(OwnFiles)

SpecValid == InitValid /\ [][Next]_vars

\* The program started with any file, JSON that is no object included.
InitForeign == InitWith(ForeignFiles)

SpecForeign == InitForeign /\ [][Next]_vars

\* The generator alone, over every enumerated outcome of its random draws.
InitGen == InitWith({Absent})

GenerateAny == \E d \in Draws : password_generator_for_entry(d)

NextGen == GenerateAny

SpecGen == InitGen /\ [][NextGen]_vars

---------------------------------------------------------------------------
(* The claims                                                              *)

Record(email, password) == [email |-> email, password |-> password]

IsString(x) == x \in Seq(STRING)

\* C1: after a successful save(w, e, p) with no later save to the same
\* title-cased key, find(w') for any w' with the same title-cased form as w
\* ends in Found with exactly e and p, whatever the capitalization typed at
\* save time and at find time.
C1_SaveThenFind ==
    outcome.op = "find" =>
        \A w \in DOMAIN saved :
            title(w) = title(website_text_field) =>
                /\ outcome.kind = "Found"
                /\ outcome.email = saved[w].email
                /\ outcome.password = saved[w].password

\* a find typed with another capitalization than the save, after a later
\* save to another key
C1_Witness ==
    /\ outcome.op = "find"
    /\ outcome.kind = "Found"
    /\ Cardinality(DOMAIN saved) >= 2
    /\ \E w \in DOMAIN saved :
        /\ w # website_text_field
        /\ w # title(w)
        /\ title(w) = title(website_text_field)

\* C2: a successful save on a valid store sets the title-cased key of the
\* website to {email, password} and leaves every other key present and
\* mapped to the record it had; no other key appears.
C2_SaveChangesOneKey ==
    [][ (outcome'.op = "save" /\ outcome'.kind = "Saved" /\ file.kind = "map") =>
            LET k == title(website_text_field)
            IN  /\ file'.kind = "map"
                /\ DOMAIN file'.data = DOMAIN file.data \cup {k}
                /\ file'.data[k] = Record(email_text_field, password_text_field)
                /\ \A j \in DOMAIN file.data \ {k} : file'.data[j] = file.data[j]
      ]_vars

\* a save that replaced the record of "Ab" in a store that also holds "Zz"
C2_Witness ==
    /\ outcome.op = "save"
    /\ outcome.kind = "Saved"
    /\ file.kind = "map"
    /\ title(outcome.website) = <<"A","b">>
    /\ file.data[<<"A","b">>] = Record(outcome.email, outcome.password)
    /\ <<"Z","z">> \in DOMAIN file.data

\* C3: save ends in EmptyField exactly when one of the three inputs is empty
\* (the email may be malformed as well), in InvalidEmail exactly when none is
\* empty and the email lacks "@" or lacks ".", and succeeds otherwise.
C3_ValidationOrder ==
    outcome.op = "save" =>
        LET anyEmpty == \/ outcome.website = <<>>
                        \/ outcome.email = <<>>
                        \/ outcome.password = <<>>
            malformed == \/ "@" \notin Range(outcome.email)
                         \/ "." \notin Range(outcome.email)
        IN  /\ outcome.kind = "EmptyField" <=> anyEmpty
            /\ outcome.kind = "InvalidEmail" <=> (~anyEmpty /\ malformed)
            /\ outcome.kind = "Saved" <=> (~anyEmpty /\ ~malformed)

\* EmptyField although the email typed is malformed too
C3_Witness ==
    /\ outcome.op = "save"
    /\ outcome.kind = "EmptyField"
    /\ outcome.email # <<>>
    /\ "@" \notin Range(outcome.email)

\* C4: a save that ends in EmptyField or InvalidEmail leaves the file as it
\* was, absent or present.
C4_FailedSaveLeavesFile ==
    [][ (outcome'.op = "save" /\ outcome'.kind \in {"EmptyField", "InvalidEmail"}) =>
            file' = file ]_vars

\* a rejected save while there is still no file
C4_Witness ==
    /\ outcome.op = "save"
    /\ outcome.kind = "InvalidEmail"
    /\ file.kind = "absent"

\* C5: find ends in StoreMissing exactly when the file does not exist; on a
\* valid mapping it ends in EntryNotFound exactly when the title-cased
\* website is no key, and otherwise in Found with the stored pair.
C5_FindOutcome ==
    outcome.op = "find" =>
        LET k == title(website_text_field)
        IN  /\ outcome.kind = "StoreMissing" <=> file.kind = "absent"
            /\ file.kind = "map" =>
                /\ outcome.kind = "EntryNotFound" <=> k \notin DOMAIN file.data
                /\ k \in DOMAIN file.data =>
                    /\ outcome.kind = "Found"
                    /\ Record(outcome.email, outcome.password) = file.data[k]

\* a find on a file that exists and is no JSON
C5_Witness ==
    /\ outcome.op = "find"
    /\ file.kind = "garbage"
    /\ outcome.kind # "StoreMissing"

\* C6: a save that passes validation while the file is absent or is no
\* mapping succeeds and leaves a file holding exactly the new entry.
C6_SaveHealsStore ==
    [][ (/\ outcome'.op = "save"
         /\ outcome'.kind \notin {"EmptyField", "InvalidEmail"}
         /\ file.kind # "map") =>
            /\ outcome'.kind = "Saved"
            /\ file'.kind = "map"
            /\ DOMAIN file'.data = {title(website_text_field)}
            /\ file'.data[title(website_text_field)]
                 = Record(email_text_field, password_text_field)
      ]_vars

\* C7: a file that is present and parseable is a mapping from strings to
\* records of exactly the two strings email and password, and once a save
\* has succeeded every later read finds such a file.
C7_StoreValid ==
    /\ file.kind = "map" =>
        \A k \in DOMAIN file.data :
            /\ IsString(k)
            /\ DOMAIN file.data[k] = {"email", "password"}
            /\ IsString(file.data[k]["email"])
            /\ IsString(file.data[k]["password"])
    /\ saved # EmptyMap => file.kind = "map"
    /\ outcome.kind = "Saved" => file.kind = "map"

\* a read that follows two saves
C7_Witness ==
    /\ outcome.op = "find"
    /\ outcome.kind = "Found"
    /\ Cardinality(DOMAIN saved) >= 2
    /\ file.kind = "map"

Count(p, pool) == Cardinality({i \in 1..Len(p) : p[i] \in Range(pool)})

\* C8: a generated password has 12 to 20 characters, of which 8 to 10 are of
\* the letters pool, 2 to 5 of the symbols pool and 2 to 5 of the digits
\* pool; its length is the sum of the three and every character is of a pool.
C8_GeneratedShape ==
    outcome.op = "generate" =>
        LET p == outcome.password
        IN  /\ Len(p) \in 12..20
            /\ Count(p, letters) \in 8..10
            /\ Count(p, symbols) \in 2..5
            /\ Count(p, numbers) \in 2..5
            /\ Len(p) = Count(p, letters) + Count(p, symbols) + Count(p, numbers)
            /\ \A i \in 1..Len(p) :
                p[i] \in Range(letters) \cup Range(symbols) \cup Range(numbers)

\* the longest password, shuffled so that a digit comes before a letter
C8_Witness ==
    /\ outcome.op = "generate"
    /\ Len(outcome.password) = 20
    /\ \E i, j \in 1..20 :
        /\ i < j
        /\ outcome.password[i] \in Range(numbers)
        /\ outcome.password[j] \in Range(letters)
    /\ password_text_field = outcome.password

\* C9: find and generate never create, delete or change the file, and a
\* record enters or changes in the file only by a successful save whose
\* password field is the password stored.
C9_ReadOnly ==
    [][ /\ outcome'.op \in {"find", "generate"} => file' = file
        /\ \A k \in DOMAIN file'.data :
            (k \notin DOMAIN file.data \/ file'.data[k] # file.data[k]) =>
                /\ outcome'.op = "save"
                /\ outcome'.kind = "Saved"
                /\ file'.data[k]["password"] = password_text_field
      ]_vars

\* a generated password that is in no record of the file
C9_Witness ==
    /\ outcome.op = "generate"
    /\ file.kind = "map"
    /\ saved # EmptyMap
    /\ \A k \in DOMAIN file.data : file.data[k]["password"] # outcome.password

\* C10: started with no file or a valid one, every handler ends in success
\* or in EmptyField, InvalidEmail, StoreMissing or EntryNotFound, and find
\* never meets a file it cannot parse.
C10_NoUnhandledFailure ==
    /\ outcome.kind \in {"none", "Generated", "Saved", "Found", "EmptyField",
                         "InvalidEmail", "StoreMissing", "EntryNotFound"}
    /\ file.kind \in {"absent", "map"}

\* a find after a save, and one before the first save
C10_Witness ==
    /\ outcome.op = "find"
    /\ outcome.kind = "EntryNotFound"
    /\ saved # EmptyMap

====
